---- MODULE Spec2Model ----
(***************************************************************************)
(* Model of the "Open in GitHub" editor extension (src/extension.js, the   *)
(* last and most complete revision, lines 585-1084): the remote-URL        *)
(* resolution, the reference resolution, the URL construction and the      *)
(* change-request lookup, together with the four command handlers that     *)
(* run them as sequential pipelines of awaited git queries.                *)
(*                                                                         *)
(* A JavaScript string is modelled as a sequence of one-character strings, *)
(* so that the regular expressions, trim, split and template literals of   *)
(* the source are computed character by character.                         *)
(***************************************************************************)
EXTENDS Integers, Sequences, FiniteSets, TLC

\* ------------------------------------------------------------------------
\* Values that are not strings
\* ------------------------------------------------------------------------

\* JavaScript null (a failed lookup). No string equals it: every element of a
\* modelled string is a single character.
Null == <<"null">>

\* A rejected execAsync promise (git exited non-zero or could not be spawned).
Fail == <<"fail">>

\* An answer of the repository nobody has asked for yet.
Unknown == <<"unknown">>

\* `lineNumber = null`, the default of constructGitHubUrl's last parameter.
NoLine == -1

\* The repositoryUrl setting as the origin of a command's repository URL.
FromConfig == <<"config">>

\* !x for a string-or-null value.
Falsy(x) == x = Null \/ x = <<>>

\* ------------------------------------------------------------------------
\* String helpers
\* ------------------------------------------------------------------------

Min(S) == CHOOSE x \in S : \A y \in S : x <= y

Max(S) == CHOOSE x \in S : \A y \in S : x >= y

RECURSIVE Rep(_, _)
Rep(s, n) == IF n = 0 THEN <<>> ELSE s \o Rep(s, n - 1)

RECURSIVE Concat(_)
Concat(ss) == IF ss = <<>> THEN <<>> ELSE Head(ss) \o Concat(Tail(ss))

\* s has p at position i (1-based).
StartsWithAt(s, i, p) ==
    /\ i >= 1
    /\ i + Len(p) - 1 <= Len(s)
    /\ \A k \in 1..Len(p) : s[i + k - 1] = p[k]

Contains(s, p) == \E i \in 1..Len(s) : StartsWithAt(s, i, p)

\* The rest of s from position i on.
From(s, i) == SubSeq(s, i, Len(s))

DigitChars == <<"0", "1", "2", "3", "4", "5", "6", "7", "8", "9">>

IsDigit(ch) == \E d \in 1..Len(DigitChars) : DigitChars[d] = ch

IsHex(ch) == IsDigit(ch) \/ ch \in {"a", "b", "c", "d", "e", "f"}

\* \s of a JavaScript regular expression, and the characters trim() removes.
IsSpace(ch) == ch \in {" ", "\t", "\n", "\r", "\f"}

UpperAlpha == <<"A", "B", "C", "D", "E", "F", "G", "H", "I", "J", "K", "L", "M", "N", "O", "P", "Q", "R", "S", "T", "U", "V", "W", "X", "Y", "Z">>

LowerAlpha == <<"a", "b", "c", "d", "e", "f", "g", "h", "i", "j", "k", "l", "m", "n", "o", "p", "q", "r", "s", "t", "u", "v", "w", "x", "y", "z">>

\* Case folding of the /i flag.
Lower(ch) ==
    IF \E i \in 1..Len(UpperAlpha) : UpperAlpha[i] = ch
    THEN LowerAlpha[CHOOSE i \in 1..Len(UpperAlpha) : UpperAlpha[i] = ch]
    ELSE ch

\* s has p at position i when case is ignored; p is in lower case.
StartsWithAtIgnoringCase(s, i, p) ==
    /\ i >= 1
    /\ i + Len(p) - 1 <= Len(s)
    /\ \A k \in 1..Len(p) : Lower(s[i + k - 1]) = p[k]

RECURSIVE TrimStart(_)
TrimStart(s) == IF s # <<>> /\ IsSpace(Head(s)) THEN TrimStart(Tail(s)) ELSE s

RECURSIVE TrimEnd(_)
TrimEnd(s) == IF s # <<>> /\ IsSpace(s[Len(s)]) THEN TrimEnd(SubSeq(s, 1, Len(s) - 1)) ELSE s

\* String.prototype.trim
Trim(s) == TrimEnd(TrimStart(s))

\* `${n}` for a non-negative integer.
RECURSIVE ToStr(_)
ToStr(n) ==
    IF n < 10 THEN <<DigitChars[n + 1]>>
    ELSE ToStr(n \div 10) \o <<DigitChars[(n % 10) + 1]>>

\* The longest run of digits of s starting at i: what (\d+) captures there.
DigitsFrom(s, i) ==
    LET ends == {j \in i..Len(s) : \A k \in i..j : IsDigit(s[k])}
    IN  IF ends = {} THEN <<>> ELSE SubSeq(s, i, Max(ends))

\* s.split(sep) for a one-character separator.
RECURSIVE Split(_, _)
Split(s, sep) ==
    LET at == {i \in 1..Len(s) : s[i] = sep}
    IN  IF at = {} THEN <<s>>
        ELSE <<SubSeq(s, 1, Min(at) - 1)>> \o Split(From(s, Min(at) + 1), sep)

\* ------------------------------------------------------------------------
\* String literals of the source
\* ------------------------------------------------------------------------

sGithubCom == <<"g", "i", "t", "h", "u", "b", ".", "c", "o", "m">>

sHttpsGithubCom == <<"h", "t", "t", "p", "s", ":", "/", "/", "g", "i", "t", "h", "u", "b", ".", "c", "o", "m", "/">>

sDotGit == <<".", "g", "i", "t">>

sBlob == <<"/", "b", "l", "o", "b", "/">>

sTree == <<"/", "t", "r", "e", "e", "/">>

sPull == <<"/", "p", "u", "l", "l", "/">>

sHashL == <<"#", "L">>

sMergePullRequest == <<"m", "e", "r", "g", "e", " ", "p", "u", "l", "l", " ", "r", "e", "q", "u", "e", "s", "t", " ", "#">>

\* The alternation (?:fixes?|closes?|resolves?|refs?): in each alternative the
\* `?` binds to the final s only.
ClosingKeywords ==
    { <<"f", "i", "x", "e">>, <<"f", "i", "x", "e", "s">>,
      <<"c", "l", "o", "s", "e">>, <<"c", "l", "o", "s", "e", "s">>,
      <<"r", "e", "s", "o", "l", "v", "e">>, <<"r", "e", "s", "o", "l", "v", "e", "s">>,
      <<"r", "e", "f">>, <<"r", "e", "f", "s">> }

\* {40} of the blame pattern.
HashLen == 40

\* ------------------------------------------------------------------------
\* Remote URL recognition and normalisation
\* ------------------------------------------------------------------------

\* /github\.com/.test(url)
isGitHubUrl(url) == ~Falsy(url) /\ Contains(url, sGithubCom)

NoMatch == [ok |-> FALSE, org |-> <<>>, repo |-> <<>>]

\* Mutant: the optional trailing slash is not accepted.
TailOk_noSlash(t) == t \in {<<>>, sDotGit}

\* What (?:\.git)?\/?$ accepts.
TailOk(t) == t \in {<<>>, <<"/">>, sDotGit, sDotGit \o <<"/">>}

\* /github\.com[:/]([^/]+)\/([^/]+?)(?:\.git)?\/?$/ tried at position i.
\* ([^/]+) is greedy and must be followed by "/", so it is the whole run up to
\* the next "/"; ([^/]+?) is lazy, so it is the shortest run the tail accepts.
OrgRepoMatchAt(url, i) ==
    LET c       == i + Len(sGithubCom)
        o       == c + 1
        slashes == {k \in o..Len(url) : url[k] = "/"}
    IN  IF \/ ~StartsWithAt(url, i, sGithubCom)
           \/ c > Len(url)
           \/ slashes = {}
        THEN NoMatch
        ELSE IF url[c] \notin {":", "/"} \/ Min(slashes) = o
        THEN NoMatch
        ELSE LET s    == Min(slashes)
                 r    == s + 1
                 ends == {e \in r..Len(url) :
                            /\ \A k \in r..e : url[k] # "/"
                            /\ TailOk(From(url, e + 1))}
             IN  IF ends = {} THEN NoMatch
                 ELSE [ok   |-> TRUE,
                       org  |-> SubSeq(url, o, s - 1),
                       repo |-> SubSeq(url, r, Min(ends))]

\* String.prototype.match without the g flag: the leftmost position that matches.
OrgRepoMatch(url) ==
    LET starts == {i \in 1..Len(url) : OrgRepoMatchAt(url, i).ok}
    IN  IF starts = {} THEN NoMatch ELSE OrgRepoMatchAt(url, Min(starts))

normalizeGitHubUrl(url) ==
    IF Falsy(url) THEN Null
    ELSE LET match == OrgRepoMatch(url)
         IN  IF match.ok
             THEN sHttpsGithubCom \o match.org \o <<"/">> \o match.repo
             ELSE Null

\* extractOrgAndRepo: the same pattern; a null argument throws inside the try
\* and the catch returns null.
extractOrgAndRepo(repositoryUrl) ==
    IF repositoryUrl = Null THEN NoMatch ELSE OrgRepoMatch(repositoryUrl)

\* ------------------------------------------------------------------------
\* URL construction
\* ------------------------------------------------------------------------

\* Mutant: the anchor is appended from line 2 on only.
constructGitHubUrl_fromLineTwo(repositoryUrl, gitRef, relativePath, lineNumber) ==
    LET url == repositoryUrl \o sBlob \o gitRef \o <<"/">> \o relativePath
    IN  IF lineNumber > 1 THEN url \o sHashL \o ToStr(lineNumber) ELSE url

constructGitHubUrl(repositoryUrl, gitRef, relativePath, lineNumber) ==
    LET url == repositoryUrl \o sBlob \o gitRef \o <<"/">> \o relativePath
    IN  IF lineNumber # NoLine /\ lineNumber # 0
        THEN url \o sHashL \o ToStr(lineNumber)
        ELSE url

\* Mutant: the repository link is built like a file link.
constructTreeUrl_blob(repositoryUrl, gitRef) == repositoryUrl \o sBlob \o gitRef

\* `${repositoryUrl}/tree/${gitRef}`
constructTreeUrl(repositoryUrl, gitRef) == repositoryUrl \o sTree \o gitRef

\* `https://github.com/${orgRepo.org}/${orgRepo.repo}/pull/${prNumber}`
constructPullUrl(orgRepo, prNumber) ==
    sHttpsGithubCom \o orgRepo.org \o <<"/">> \o orgRepo.repo \o sPull \o prNumber

\* ------------------------------------------------------------------------
\* Paths
\* ------------------------------------------------------------------------

\* The non-empty segments of a POSIX path.
Segs(p) == SelectSeq(Split(p, "/"), LAMBDA x : x # <<>>)

RECURSIVE Join(_, _)
Join(segs, sep) ==
    IF segs = <<>> THEN <<>>
    ELSE IF Len(segs) = 1 THEN segs[1]
    ELSE segs[1] \o <<sep>> \o Join(Tail(segs), sep)

\* path.relative(from, to) of two normalised absolute POSIX paths: drop the
\* common leading segments, climb out of what is left of `from`, descend `to`.
pathRelative(from, to) ==
    LET f      == Segs(from)
        t      == Segs(to)
        same   == {n \in 0..Len(f) : n <= Len(t) /\ \A k \in 1..n : f[k] = t[k]}
        common == Max(same)
        up     == [k \in 1..(Len(f) - common) |-> <<".", ".">>]
    IN  Join(up \o SubSeq(t, common + 1, Len(t)), "/")

\* .replace(/\\/g, '/')
replaceBackslashes(s) == [i \in 1..Len(s) |-> IF s[i] = "\\" THEN "/" ELSE s[i]]

getRelativePath(filePath, gitRoot) == replaceBackslashes(pathRelative(gitRoot, filePath))

\* ------------------------------------------------------------------------
\* Blame output and commit messages
\* ------------------------------------------------------------------------

\* The part of getCommitHashFromBlame after the await: lines[0].match(/^([a-f0-9]{40})/).
\* A rejected query is caught and gives null.
parseBlame(stdout) ==
    IF stdout = Fail THEN Null
    ELSE LET line == Split(stdout, "\n")[1]
         IN  IF Len(line) >= HashLen /\ \A k \in 1..HashLen : IsHex(line[k])
             THEN SubSeq(line, 1, HashLen)
             ELSE Null

\* Pattern 1: /Merge pull request #(\d+)/i
matchMergePullRequest(msg) ==
    LET n      == Len(sMergePullRequest)
        starts == {i \in 1..Len(msg) :
                     /\ StartsWithAtIgnoringCase(msg, i, sMergePullRequest)
                     /\ DigitsFrom(msg, i + n) # <<>>}
    IN  IF starts = {} THEN Null ELSE DigitsFrom(msg, Min(starts) + n)

\* The position after the run [\s:]* that starts at j.
AfterSeparators(s, j) ==
    LET others == {k \in j..Len(s) : ~(IsSpace(s[k]) \/ s[k] = ":")}
    IN  IF others = {} THEN Len(s) + 1 ELSE Min(others)

\* The number pattern 2 captures when tried at position i, or Null.
ClosingMatchAt(msg, i) ==
    LET hits == {kw \in ClosingKeywords :
                   /\ StartsWithAtIgnoringCase(msg, i, kw)
                   /\ LET h == AfterSeparators(msg, i + Len(kw))
                      IN  h <= Len(msg) /\ msg[h] = "#" /\ DigitsFrom(msg, h + 1) # <<>>}
    IN  IF hits = {} THEN Null
        ELSE LET kw == CHOOSE k \in hits : TRUE
             IN  DigitsFrom(msg, AfterSeparators(msg, i + Len(kw)) + 1)

\* Pattern 2: /(?:fixes?|closes?|resolves?|refs?)[\s:]*#(\d+)/i
matchClosingKeyword(msg) ==
    LET starts == {i \in 1..Len(msg) : ClosingMatchAt(msg, i) # Null}
    IN  IF starts = {} THEN Null ELSE ClosingMatchAt(msg, Min(starts))

\* Pattern 3: /#(\d+)/
matchBareNumber(msg) ==
    LET starts == {i \in 1..Len(msg) : msg[i] = "#" /\ DigitsFrom(msg, i + 1) # <<>>}
    IN  IF starts = {} THEN Null ELSE DigitsFrom(msg, Min(starts) + 1)

\* Mutant: the bare pattern is tried before the closing-keyword pattern.
getPRNumberFromCommit_bareSecond(stdout) ==
    IF stdout = Fail THEN Null
    ELSE IF matchMergePullRequest(stdout) # Null THEN matchMergePullRequest(stdout)
    ELSE IF matchBareNumber(stdout) # Null THEN matchBareNumber(stdout)
    ELSE matchClosingKeyword(stdout)

\* The part of getPRNumberFromCommit after the await; stdout is the commit
\* message, untrimmed. A rejected query is caught and gives null.
getPRNumberFromCommit(stdout) ==
    IF stdout = Fail THEN Null
    ELSE IF matchMergePullRequest(stdout) # Null THEN matchMergePullRequest(stdout)
    ELSE IF matchClosingKeyword(stdout) # Null THEN matchClosingKeyword(stdout)
    ELSE matchBareNumber(stdout)

\* ------------------------------------------------------------------------
\* The environment the commands run in: what git may print, where the file
\* may be, what the settings may hold. Every git output ends with the newline
\* git prints; the source trims it.
\* ------------------------------------------------------------------------

\* upstream
sUpstream == <<"u", "p", "s", "t", "r", "e", "a", "m">>

\* origin
sOrigin == <<"o", "r", "i", "g", "i", "n">>

\* fork
sFork == <<"f", "o", "r", "k">>

\* mirror
sMirror == <<"m", "i", "r", "r", "o", "r">>

\* https://github.com/acme/up.git\n
urlUpstreamHttpsGit == <<"h", "t", "t", "p", "s", ":", "/", "/", "g", "i", "t", "h", "u", "b", ".", "c", "o", "m", "/", "a", "c", "m", "e", "/", "u", "p", ".", "g", "i", "t", "\n">>

\* https://gitlab.com/acme/up.git\n
urlUpstreamGitlab == <<"h", "t", "t", "p", "s", ":", "/", "/", "g", "i", "t", "l", "a", "b", ".", "c", "o", "m", "/", "a", "c", "m", "e", "/", "u", "p", ".", "g", "i", "t", "\n">>

\* https://github.com/acme/up/wiki\n
urlUpstreamExtra == <<"h", "t", "t", "p", "s", ":", "/", "/", "g", "i", "t", "h", "u", "b", ".", "c", "o", "m", "/", "a", "c", "m", "e", "/", "u", "p", "/", "w", "i", "k", "i", "\n">>

\* git@github.com:me/up.git\n
urlOriginScp == <<"g", "i", "t", "@", "g", "i", "t", "h", "u", "b", ".", "c", "o", "m", ":", "m", "e", "/", "u", "p", ".", "g", "i", "t", "\n">>

\* git@bitbucket.org:me/up.git\n
urlOriginBitbucket == <<"g", "i", "t", "@", "b", "i", "t", "b", "u", "c", "k", "e", "t", ".", "o", "r", "g", ":", "m", "e", "/", "u", "p", ".", "g", "i", "t", "\n">>

\* https://github.com/me/up/issues\n
urlOriginExtra == <<"h", "t", "t", "p", "s", ":", "/", "/", "g", "i", "t", "h", "u", "b", ".", "c", "o", "m", "/", "m", "e", "/", "u", "p", "/", "i", "s", "s", "u", "e", "s", "\n">>

\* https://github.com/bob/up/pulls\n
urlForkExtra == <<"h", "t", "t", "p", "s", ":", "/", "/", "g", "i", "t", "h", "u", "b", ".", "c", "o", "m", "/", "b", "o", "b", "/", "u", "p", "/", "p", "u", "l", "l", "s", "\n">>

\* ssh://git@github.com/bob/up.git\n
urlForkSsh == <<"s", "s", "h", ":", "/", "/", "g", "i", "t", "@", "g", "i", "t", "h", "u", "b", ".", "c", "o", "m", "/", "b", "o", "b", "/", "u", "p", ".", "g", "i", "t", "\n">>

\* ssh://git@example.org/bob/up.git\n
urlForkOther == <<"s", "s", "h", ":", "/", "/", "g", "i", "t", "@", "e", "x", "a", "m", "p", "l", "e", ".", "o", "r", "g", "/", "b", "o", "b", "/", "u", "p", ".", "g", "i", "t", "\n">>

\* https://github.com/mir/up/\n
urlMirrorHttps == <<"h", "t", "t", "p", "s", ":", "/", "/", "g", "i", "t", "h", "u", "b", ".", "c", "o", "m", "/", "m", "i", "r", "/", "u", "p", "/", "\n">>

\* https://example.org/mir/up\n
urlMirrorOther == <<"h", "t", "t", "p", "s", ":", "/", "/", "e", "x", "a", "m", "p", "l", "e", ".", "o", "r", "g", "/", "m", "i", "r", "/", "u", "p", "\n">>

\* https://github.com/acme/widgets
cfgWidgets == <<"h", "t", "t", "p", "s", ":", "/", "/", "g", "i", "t", "h", "u", "b", ".", "c", "o", "m", "/", "a", "c", "m", "e", "/", "w", "i", "d", "g", "e", "t", "s">>

\* https://git.example.org/acme
cfgNotGithub == <<"h", "t", "t", "p", "s", ":", "/", "/", "g", "i", "t", ".", "e", "x", "a", "m", "p", "l", "e", ".", "o", "r", "g", "/", "a", "c", "m", "e">>

\* https://corp-github.com/acme/widgets
cfgCorp == <<"h", "t", "t", "p", "s", ":", "/", "/", "c", "o", "r", "p", "-", "g", "i", "t", "h", "u", "b", ".", "c", "o", "m", "/", "a", "c", "m", "e", "/", "w", "i", "d", "g", "e", "t", "s">>

\* /w/src/index.ts
pathFile == <<"/", "w", "/", "s", "r", "c", "/", "i", "n", "d", "e", "x", ".", "t", "s">>

\* /w\n
rootW == <<"/", "w", "\n">>

\* /v\n
rootV == <<"/", "v", "\n">>

\* main\n
branchMain == <<"m", "a", "i", "n", "\n">>

\* fork\nmirror\norigin\nupstream\n
listAll == <<"f", "o", "r", "k", "\n", "m", "i", "r", "r", "o", "r", "\n", "o", "r", "i", "g", "i", "n", "\n", "u", "p", "s", "t", "r", "e", "a", "m", "\n">>

\* fork\nmirror\n
listForkMirror == <<"f", "o", "r", "k", "\n", "m", "i", "r", "r", "o", "r", "\n">>

\* origin\n
listOrigin == <<"o", "r", "i", "g", "i", "n", "\n">>

\*  1 1 1\nauthor A\n
blameTail == <<" ", "1", " ", "1", " ", "1", "\n", "a", "u", "t", "h", "o", "r", " ", "A", "\n">>

\* Merge pull request #10 from me/x\n\nsee #99\n
msgMerge == <<"M", "e", "r", "g", "e", " ", "p", "u", "l", "l", " ", "r", "e", "q", "u", "e", "s", "t", " ", "#", "1", "0", " ", "f", "r", "o", "m", " ", "m", "e", "/", "x", "\n", "\n", "s", "e", "e", " ", "#", "9", "9", "\n">>

\* tidy (#7)\n\nCloses: #12\n
msgCloses == <<"t", "i", "d", "y", " ", "(", "#", "7", ")", "\n", "\n", "C", "l", "o", "s", "e", "s", ":", " ", "#", "1", "2", "\n">>

\* tidy (#7)\n
msgBare == <<"t", "i", "d", "y", " ", "(", "#", "7", ")", "\n">>

\* tidy\n
msgNone == <<"t", "i", "d", "y", "\n">>

hashA == Rep(<<"3", "f", "2", "a">>, 10)

hashB == Rep(<<"b", "7", "c", "1">>, 10)

Hashes == {hashA, hashB}

RemoteNames == {sUpstream, sOrigin, sFork, sMirror}

\* The cursor is on the first line or on line MaxLine (0-based, as the editor
\* counts).
MaxLine == 1

Lines == {0, MaxLine}

FilePaths == {pathFile}

\* openInGithub.repositoryUrl: unset, a GitHub repository, a repository on a
\* host of one's own whose name ends in github.com, something else.
ConfigUrls == {<<>>, cfgWidgets, cfgCorp, cfgNotGithub}

\* git rev-parse --show-toplevel: not a repository, no output, the directory the
\* file is under, the physical directory when the file was opened through a link.
RootOutputs == {Fail, <<"\n">>, rootW, rootV}

\* git branch --show-current: an old git, detached HEAD, a branch.
BranchOutputs == {Fail, <<"\n">>, branchMain}

\* git rev-parse HEAD: no commit yet, the commit, nothing printed.
HeadOutputs == {Fail, hashA \o <<"\n">>, <<"\n">>}

\* git remote get-url <name>: no such remote, or its URL.
UrlOutputs(name) ==
    CASE name = sUpstream -> {Fail, urlUpstreamHttpsGit, urlUpstreamGitlab, urlUpstreamExtra}
      [] name = sOrigin   -> {Fail, urlOriginScp, urlOriginBitbucket, urlOriginExtra}
      [] name = sFork     -> {Fail, urlForkSsh, urlForkOther, urlForkExtra}
      [] name = sMirror   -> {urlMirrorHttps, urlMirrorOther}

\* git remote
RemotesOutputs == {Fail, <<>>, listOrigin, listForkMirror, listAll}

\* git blame -L n,n --porcelain
BlameOutputs == {Fail, hashA \o blameTail, hashB \o blameTail}

\* git log -1 --format=%B <hash>
LogOutputs == {Fail, msgMerge, msgCloses, msgBare, msgNone}

\* ------------------------------------------------------------------------
\* State
\* ------------------------------------------------------------------------

VARIABLES
    editor,   \* vscode.window.activeTextEditor: [active, fsPath, line]
    config,   \* the openInGithub settings: [repositoryUrl, useCommitHash]
    git,      \* what the repository answers; an answer is fixed when first asked for
    cmd,      \* the command invocations: position, locals, what each has shown and opened
    pure      \* the function under evaluation in the specifications of the pure functions

vars == <<editor, config, git, cmd, pure>>

Kinds == {"openFile", "openFileAtLine", "openRepository", "openPRForLine"}

\* An invocation that has not started.
IdleCmd ==
    [pc            |-> "idle",
     kind          |-> "none",
     filePath      |-> Unknown,
     configUrl     |-> Unknown,
     useCommitHash |-> FALSE,
     gitRoot       |-> Unknown,
     repositoryUrl |-> Unknown,
     from          |-> Unknown,    \* where repositoryUrl came from: "config" or the remote's name
     remotes       |-> <<>>,       \* the remote being enumerated, then those still to visit
     gitRef        |-> Unknown,
     relativePath  |-> Unknown,
     lineNumber    |-> NoLine,
     commitHash    |-> Unknown,
     prNumber      |-> Unknown,
     url           |-> Unknown,
     issued        |-> <<>>,       \* the external calls made so far, in order
     notes         |-> <<>>,       \* the notifications shown, in order
     opened        |-> <<>>,       \* the URLs opened
     overlapped    |-> FALSE,      \* it was started while another invocation was suspended
     cursorAtStart |-> 0]          \* the cursor line when it was started

UnknownGit ==
    [root      |-> Unknown,
     branch    |-> Unknown,
     head      |-> Unknown,
     remotes   |-> Unknown,
     remoteUrl |-> [n \in RemoteNames |-> Unknown],
     blame     |-> [l \in 1..(MaxLine + 1) |-> Unknown],
     message   |-> [h \in Hashes |-> Unknown]]

PureIdle == [fn |-> "none", in |-> <<>>, out |-> <<>>]

\* The answers a query can get: the one already given, or any the repository
\* could give.
Answers(known, outputs) == IF known = Unknown THEN outputs ELSE {known}

\* ------------------------------------------------------------------------
\* The command handlers, from the last step back to the first
\* ------------------------------------------------------------------------

\* showError, which every handler follows with a return (or is the catch block).
showError(st, message) ==
    [st EXCEPT !.pc = "done",
               !.notes = Append(@, [level |-> "error", text |-> message, arg |-> <<>>])]

showInformationMessage(st, text, arg) ==
    [st EXCEPT !.pc = "done",
               !.notes = Append(@, [level |-> "info", text |-> text, arg |-> arg])]

\* `await execAsync(...)` or `await open(url)`: the call is made and the handler
\* is suspended at pc until it returns. arg is the part of the command line
\* that varies: the remote's name, the line, the commit, the URL.
Await(st, pc, q, arg) ==
    [st EXCEPT !.pc = pc, !.issued = Append(@, [q |-> q, arg |-> arg])]

\* await openInBrowser(url)
openInBrowser(st, url) == Await([st EXCEPT !.url = url], "open", "open", url)

\* Mutant: a rejected open() is swallowed.
afterOpen_swallowed(st, ok) ==
    IF ~ok THEN [st EXCEPT !.pc = "done"]
    ELSE showInformationMessage([st EXCEPT !.opened = Append(@, st.url)], "Opened", <<>>)

\* Mutant: the URL is kept in one place for all invocations, so the URL opened
\* is the one another invocation has built meanwhile.
afterOpen_sharedUrl(st, ok) ==
    LET others == {d \in DOMAIN cmd : cmd[d].url \notin {Unknown, st.url}}
        url    == IF others = {} THEN st.url ELSE cmd[CHOOSE d \in others : TRUE].url
    IN  IF ~ok THEN showError(st, "spawn ENOENT")
        ELSE showInformationMessage([st EXCEPT !.opened = Append(@, url)], "Opened", <<>>)

\* What follows `await openInBrowser(url)`: the success message, or the catch.
afterOpen(st, ok) ==
    IF ~ok THEN showError(st, "spawn ENOENT")
    ELSE LET o == [st EXCEPT !.opened = Append(@, st.url)]
         IN  CASE st.kind = "openRepository" ->
                    showInformationMessage(o, "Opened repository in GitHub", <<>>)
               [] st.kind = "openPRForLine" ->
                    showInformationMessage(o, "Opened PR # in GitHub", st.prNumber)
               [] OTHER ->
                    showInformationMessage(o, "Opened in GitHub: ", st.relativePath)

\* openFileInGitHub and openRepositoryInGitHub once getGitRef has returned.
afterGitRef(st, gitRef) ==
    IF st.kind = "openRepository"
    THEN openInBrowser([st EXCEPT !.gitRef = gitRef],
                       constructTreeUrl(st.repositoryUrl, gitRef))
    ELSE LET relativePath == getRelativePath(st.filePath, st.gitRoot)
             lineNumber   == IF st.kind = "openFileAtLine" THEN editor.line + 1 ELSE NoLine
         IN  openInBrowser([st EXCEPT !.gitRef = gitRef,
                                      !.relativePath = relativePath,
                                      !.lineNumber = lineNumber],
                           constructGitHubUrl(st.repositoryUrl, gitRef, relativePath, lineNumber))

\* Mutant: when the commit cannot be read the branch main is assumed.
afterHead_assumesMain(st, stdout) ==
    afterGitRef(st, IF stdout = Fail THEN <<"m", "a", "i", "n">> ELSE Trim(stdout))

\* getGitRef after `git rev-parse HEAD`: a rejection is rethrown as
\* 'Failed to get git reference' and reaches the handler's catch.
afterHead(st, stdout) ==
    IF stdout = Fail THEN showError(st, "Failed to get git reference")
    ELSE afterGitRef(st, Trim(stdout))

\* getGitRef after `git branch --show-current`.
afterBranch(st, stdout) ==
    IF stdout # Fail /\ Trim(stdout) # <<>>
    THEN afterGitRef(st, Trim(stdout))
    ELSE Await(st, "getHead", "git rev-parse HEAD", <<>>)

\* Mutant: the branch is tried first whatever useCommitHash says.
getGitRef_branchFirst(st) == Await(st, "getBranch", "git branch --show-current", <<>>)

\* getGitRef up to its first await.
getGitRef(st) ==
    IF st.useCommitHash
    THEN Await(st, "getHead", "git rev-parse HEAD", <<>>)
    ELSE Await(st, "getBranch", "git branch --show-current", <<>>)

\* Mutant: the repository URL is taken apart before the commit message is read.
afterLog_urlFirst(st, stdout) ==
    LET prNumber == getPRNumberFromCommit(stdout)
        orgRepo  == extractOrgAndRepo(st.repositoryUrl)
    IN  IF ~orgRepo.ok THEN showError(st, "Invalid repository URL format")
        ELSE IF Falsy(prNumber) THEN showError(st, "Could not find PR number in commit message")
        ELSE openInBrowser([st EXCEPT !.prNumber = prNumber],
                           constructPullUrl(orgRepo, prNumber))

\* openPRForLastChangedLine after getPRNumberFromCommit.
afterLog(st, stdout) ==
    LET prNumber == getPRNumberFromCommit(stdout)
        orgRepo  == extractOrgAndRepo(st.repositoryUrl)
    IN  IF Falsy(prNumber) THEN showError(st, "Could not find PR number in commit message")
        ELSE IF ~orgRepo.ok THEN showError([st EXCEPT !.prNumber = prNumber],
                                           "Invalid repository URL format")
        ELSE openInBrowser([st EXCEPT !.prNumber = prNumber],
                           constructPullUrl(orgRepo, prNumber))

\* openPRForLastChangedLine after getCommitHashFromBlame.
afterBlame(st, stdout) ==
    LET commitHash == parseBlame(stdout)
    IN  IF Falsy(commitHash) THEN showError(st, "Could not determine commit for this line")
        ELSE Await([st EXCEPT !.commitHash = commitHash], "log", "git log -1 --format=%B", commitHash)

sNoRepositoryUrl ==
    "Could not determine GitHub repository URL. Please configure openInGithub.repositoryUrl or ensure a GitHub remote exists."

\* A handler once getGitHubRepositoryUrl has returned.
afterRepositoryUrl(st, repositoryUrl, from) ==
    LET got == [st EXCEPT !.repositoryUrl = repositoryUrl, !.from = from]
    IN  IF Falsy(repositoryUrl)
        THEN showError(got, sNoRepositoryUrl)
        ELSE IF st.kind = "openPRForLine"
        THEN LET lineNumber == editor.line + 1
             IN  Await([got EXCEPT !.lineNumber = lineNumber],
                       "blame", "git blame --porcelain -L", ToStr(lineNumber))
        ELSE getGitRef(got)

\* getRemoteUrl after its await.
getRemoteUrl(stdout) == IF stdout = Fail THEN Null ELSE Trim(stdout)

\* getAllRemotes after its await.
getAllRemotes(stdout) ==
    IF stdout = Fail THEN <<>>
    ELSE SelectSeq(Split(Trim(stdout), "\n"), LAMBDA name : Len(name) > 0)

\* Mutant: the remote's URL is returned as soon as it exists, unchecked.
recognizedUrl_unchecked(remoteUrl) == IF ~Falsy(remoteUrl) THEN remoteUrl ELSE Null

\* `if (url && isGitHubUrl(url)) { const normalized = normalizeGitHubUrl(url);
\* if (normalized) return normalized; }`: the URL to return, or Null to go on.
recognizedUrl(remoteUrl) ==
    IF ~Falsy(remoteUrl) /\ isGitHubUrl(remoteUrl)
    THEN normalizeGitHubUrl(remoteUrl)
    ELSE Null

\* Step 4 of getGitHubRepositoryUrl: the loop over the remotes still to visit.
enumerateRemotes(st, names) ==
    IF names = <<>> THEN afterRepositoryUrl(st, Null, Null)
    ELSE Await([st EXCEPT !.remotes = names], "enum", "git remote get-url", Head(names))

\* Mutant: a remote that is not recognised is waited for again.
nextRemoteStep_stays(st) == st

\* Mutant: the origin step is left out.
nextRemoteStep_skipsOrigin(st) ==
    CASE st.pc = "upstream" -> Await(st, "allRemotes", "git remote", <<>>)
      [] st.pc = "origin"   -> Await(st, "allRemotes", "git remote", <<>>)
      [] st.pc = "enum"     -> enumerateRemotes(st, Tail(st.remotes))

\* Where getGitHubRepositoryUrl goes when the remote just asked is not recognised.
nextRemoteStep(st) ==
    CASE st.pc = "upstream" -> Await(st, "origin", "git remote get-url", sOrigin)
      [] st.pc = "origin"   -> Await(st, "allRemotes", "git remote", <<>>)
      [] st.pc = "enum"     -> enumerateRemotes(st, Tail(st.remotes))

\* Mutant: a GitHub URL that is not of the form org/repo ends the search.
afterRemoteUrl_mismatchEnds(st, name, stdout) ==
    LET url        == getRemoteUrl(stdout)
        normalized == recognizedUrl(url)
    IN  IF normalized # Null THEN afterRepositoryUrl(st, normalized, name)
        ELSE IF isGitHubUrl(url) THEN afterRepositoryUrl(st, Null, Null)
        ELSE nextRemoteStep(st)

\* Mutant: a failed `git remote get-url` is not caught.
afterRemoteUrl_fatal(st, name, stdout) ==
    IF stdout = Fail THEN showError(st, "Command failed: git remote get-url")
    ELSE LET normalized == recognizedUrl(getRemoteUrl(stdout))
         IN  IF normalized # Null THEN afterRepositoryUrl(st, normalized, name)
             ELSE nextRemoteStep(st)

\* getGitHubRepositoryUrl after an awaited getRemoteUrl.
afterRemoteUrl(st, name, stdout) ==
    LET normalized == recognizedUrl(getRemoteUrl(stdout))
    IN  IF normalized # Null THEN afterRepositoryUrl(st, normalized, name)
        ELSE nextRemoteStep(st)

\* Mutant: the setting is consulted only after the remotes, i.e. never first.
getGitHubRepositoryUrl_remotesFirst(st) ==
    Await(st, "upstream", "git remote get-url", sUpstream)

\* getGitHubRepositoryUrl up to its first await.
getGitHubRepositoryUrl(st) ==
    IF ~Falsy(st.configUrl) THEN afterRepositoryUrl(st, st.configUrl, FromConfig)
    ELSE Await(st, "upstream", "git remote get-url", sUpstream)

\* getGitRoot after its await.
getGitRoot(stdout) == IF stdout = Fail THEN Null ELSE Trim(stdout)

\* Mutant: the handler goes on without a root.
afterGitRoot_unchecked(st, gitRoot) == getGitHubRepositoryUrl([st EXCEPT !.gitRoot = gitRoot])

\* A handler once getGitRoot has returned.
afterGitRoot(st, gitRoot) ==
    IF Falsy(gitRoot) THEN showError([st EXCEPT !.gitRoot = gitRoot], "File is not in a git repository")
    ELSE getGitHubRepositoryUrl([st EXCEPT !.gitRoot = gitRoot])

\* The start of every handler: the editor check, the settings, the first query.
handlerEntry(st) ==
    IF ~editor.active THEN showError(st, "No active editor found")
    ELSE Await([st EXCEPT !.filePath = editor.fsPath,
                          !.configUrl = config.repositoryUrl,
                          !.useCommitHash = config.useCommitHash],
               "getGitRoot", "git rev-parse --show-toplevel", <<>>)

\* ------------------------------------------------------------------------
\* Actions
\* ------------------------------------------------------------------------

\* Mutant: the handler's variables are kept from the invocation that ended
\* before, instead of being fresh.
Invoke_keepsState(c, kind) ==
    /\ cmd[c].pc = "idle"
    /\ LET ended == {d \in DOMAIN cmd \ {c} : cmd[d].pc = "done"}
           kept  == IF ended = {} THEN cmd[c] ELSE cmd[CHOOSE d \in ended : TRUE]
       IN  cmd' = [cmd EXCEPT ![c] = handlerEntry([kept EXCEPT !.kind = kind])]
    /\ UNCHANGED <<editor, config, git, pure>>

\* The user runs one of the four registered commands.
Invoke(c, kind) ==
    /\ cmd[c].pc = "idle"
    /\ cmd' = [cmd EXCEPT ![c] =
                 handlerEntry([@ EXCEPT !.kind = kind,
                                        !.cursorAtStart = editor.line,
                                        !.overlapped = \E d \in DOMAIN cmd \ {c} :
                                                          cmd[d].pc \notin {"idle", "done"}])]
    /\ UNCHANGED <<editor, config, git, pure>>

GitRootReturned(c) ==
    /\ cmd[c].pc = "getGitRoot"
    /\ \E stdout \in Answers(git.root, RootOutputs) :
         /\ git' = [git EXCEPT !.root = stdout]
         /\ cmd' = [cmd EXCEPT ![c] = afterGitRoot(@, getGitRoot(stdout))]
    /\ UNCHANGED <<editor, config, pure>>

RemoteUrlReturned(c) ==
    /\ cmd[c].pc \in {"upstream", "origin", "enum"}
    /\ LET name == CASE cmd[c].pc = "upstream" -> sUpstream
                     [] cmd[c].pc = "origin"   -> sOrigin
                     [] cmd[c].pc = "enum"     -> Head(cmd[c].remotes)
       IN  \E stdout \in Answers(git.remoteUrl[name], UrlOutputs(name)) :
             /\ git' = [git EXCEPT !.remoteUrl[name] = stdout]
             /\ cmd' = [cmd EXCEPT ![c] = afterRemoteUrl(@, name, stdout)]
    /\ UNCHANGED <<editor, config, pure>>

AllRemotesReturned(c) ==
    /\ cmd[c].pc = "allRemotes"
    /\ \E stdout \in Answers(git.remotes, RemotesOutputs) :
         /\ git' = [git EXCEPT !.remotes = stdout]
         /\ cmd' = [cmd EXCEPT ![c] = enumerateRemotes(@, getAllRemotes(stdout))]
    /\ UNCHANGED <<editor, config, pure>>

BranchReturned(c) ==
    /\ cmd[c].pc = "getBranch"
    /\ \E stdout \in Answers(git.branch, BranchOutputs) :
         /\ git' = [git EXCEPT !.branch = stdout]
         /\ cmd' = [cmd EXCEPT ![c] = afterBranch(@, stdout)]
    /\ UNCHANGED <<editor, config, pure>>

HeadReturned(c) ==
    /\ cmd[c].pc = "getHead"
    /\ \E stdout \in Answers(git.head, HeadOutputs) :
         /\ git' = [git EXCEPT !.head = stdout]
         /\ cmd' = [cmd EXCEPT ![c] = afterHead(@, stdout)]
    /\ UNCHANGED <<editor, config, pure>>

BlameReturned(c) ==
    /\ cmd[c].pc = "blame"
    /\ \E stdout \in Answers(git.blame[cmd[c].lineNumber], BlameOutputs) :
         /\ git' = [git EXCEPT !.blame[cmd[c].lineNumber] = stdout]
         /\ cmd' = [cmd EXCEPT ![c] = afterBlame(@, stdout)]
    /\ UNCHANGED <<editor, config, pure>>

LogReturned(c) ==
    /\ cmd[c].pc = "log"
    /\ \E stdout \in Answers(git.message[cmd[c].commitHash], LogOutputs) :
         /\ git' = [git EXCEPT !.message[cmd[c].commitHash] = stdout]
         /\ cmd' = [cmd EXCEPT ![c] = afterLog(@, stdout)]
    /\ UNCHANGED <<editor, config, pure>>

\* open(url) resolves, or rejects when no viewer can be started.
OpenReturned(c) ==
    /\ cmd[c].pc = "open"
    /\ \E ok \in BOOLEAN : cmd' = [cmd EXCEPT ![c] = afterOpen(@, ok)]
    /\ UNCHANGED <<editor, config, git, pure>>

\* The user moves the cursor; the host does this at any time, also while a
\* handler is suspended in an await.
MoveCursor ==
    /\ editor.active
    /\ \E line \in Lines :
         /\ line # editor.line
         /\ editor' = [editor EXCEPT !.line = line]
    /\ UNCHANGED <<config, git, cmd, pure>>

Editors ==
    {[active |-> FALSE, fsPath |-> Null, line |-> 0]}
    \cup [active : {TRUE}, fsPath : FilePaths, line : Lines]

Init ==
    /\ editor \in Editors
    /\ config \in [repositoryUrl : ConfigUrls, useCommitHash : BOOLEAN]
    /\ git = UnknownGit
    /\ cmd = [c \in {"c1"} |-> IdleCmd]
    /\ pure = PureIdle

Next ==
    \/ \E c \in DOMAIN cmd, kind \in Kinds : Invoke(c, kind)
    \/ \E c \in DOMAIN cmd : GitRootReturned(c)
    \/ \E c \in DOMAIN cmd : RemoteUrlReturned(c)
    \/ \E c \in DOMAIN cmd : AllRemotesReturned(c)
    \/ \E c \in DOMAIN cmd : BranchReturned(c)
    \/ \E c \in DOMAIN cmd : HeadReturned(c)
    \/ \E c \in DOMAIN cmd : BlameReturned(c)
    \/ \E c \in DOMAIN cmd : LogReturned(c)
    \/ \E c \in DOMAIN cmd : OpenReturned(c)
    \/ MoveCursor

Spec == Init /\ [][Next]_vars

\* The same commands over a repository that is settled before the command
\* starts: every combination of remote URLs with a failing, a partial and a
\* full remote list, on a branch with one commit.
SettledGits ==
    {[root      |-> rootW,
      branch    |-> branchMain,
      head      |-> hashA \o <<"\n">>,
      remotes   |-> list,
      remoteUrl |-> urls,
      blame     |-> [l \in 1..(MaxLine + 1) |-> hashA \o blameTail],
      message   |-> [h \in Hashes |-> IF h = hashA THEN msgMerge ELSE msgBare]] :
        urls \in {u \in [RemoteNames -> UNION {UrlOutputs(n) : n \in RemoteNames}] :
                    \A n \in RemoteNames : u[n] \in UrlOutputs(n)},
        list \in {Fail, listForkMirror, listAll}}

InitRemotes ==
    /\ editor \in [active : {TRUE}, fsPath : FilePaths, line : Lines]
    /\ config \in [repositoryUrl : ConfigUrls, useCommitHash : BOOLEAN]
    /\ git \in SettledGits
    /\ cmd = [c \in {"c1"} |-> IdleCmd]
    /\ pure = PureIdle

SpecRemotes == InitRemotes /\ [][Next]_vars

\* Every query and every open() that is pending returns in the end: the child
\* process exits, or exec rejects.
Returns ==
    \E c \in DOMAIN cmd :
        \/ GitRootReturned(c)
        \/ RemoteUrlReturned(c)
        \/ AllRemotesReturned(c)
        \/ BranchReturned(c)
        \/ HeadReturned(c)
        \/ BlameReturned(c)
        \/ LogReturned(c)
        \/ OpenReturned(c)

SpecLive == Init /\ [][Next]_vars /\ WF_vars(Returns)

\* Two invocations at once: the user runs a second command while the first is
\* suspended in a query. The editor, the settings and the repository stay as
\* they are.
TwoGits ==
    {[root      |-> rootW,
      branch    |-> branch,
      head      |-> head,
      remotes   |-> listForkMirror,
      remoteUrl |-> [n \in RemoteNames |->
                       CASE n = sUpstream -> upstream
                         [] n = sOrigin   -> urlOriginBitbucket
                         [] n = sFork     -> urlForkSsh
                         [] n = sMirror   -> urlMirrorHttps],
      blame     |-> [l \in 1..(MaxLine + 1) |-> hashA \o blameTail],
      message   |-> [h \in Hashes |-> IF h = hashA THEN message ELSE msgBare]] :
        branch \in {Fail, branchMain},
        head \in {Fail, hashA \o <<"\n">>},
        upstream \in {Fail, urlUpstreamHttpsGit},
        message \in {msgMerge, msgNone}}

InitTwo ==
    /\ editor \in [active : {TRUE}, fsPath : FilePaths, line : {0}]
    /\ config \in [repositoryUrl : {<<>>, cfgWidgets}, useCommitHash : BOOLEAN]
    /\ git \in TwoGits
    /\ cmd = [c \in {"c1", "c2"} |-> IdleCmd]
    /\ pure = PureIdle

NextTwo ==
    \/ \E c \in DOMAIN cmd, kind \in Kinds : Invoke(c, kind)
    \/ \E c \in DOMAIN cmd : GitRootReturned(c)
    \/ \E c \in DOMAIN cmd : RemoteUrlReturned(c)
    \/ \E c \in DOMAIN cmd : AllRemotesReturned(c)
    \/ \E c \in DOMAIN cmd : BranchReturned(c)
    \/ \E c \in DOMAIN cmd : HeadReturned(c)
    \/ \E c \in DOMAIN cmd : BlameReturned(c)
    \/ \E c \in DOMAIN cmd : LogReturned(c)
    \/ \E c \in DOMAIN cmd : OpenReturned(c)

SpecTwo == InitTwo /\ [][NextTwo]_vars

\* One invocation after another, the repository changing in between: the user
\* adds, removes or redirects the origin remote once the first command has
\* ended and before the second is started.
AgainGits ==
    {[root      |-> rootW,
      branch    |-> branchMain,
      head      |-> hashA \o <<"\n">>,
      remotes   |-> listForkMirror,
      remoteUrl |-> [n \in RemoteNames |->
                       CASE n = sUpstream -> Fail
                         [] n = sOrigin   -> origin
                         [] n = sFork     -> urlForkOther
                         [] n = sMirror   -> urlMirrorOther],
      blame     |-> [l \in 1..(MaxLine + 1) |-> hashA \o blameTail],
      message   |-> [h \in Hashes |-> msgMerge]] :
        origin \in {Fail, urlOriginBitbucket, urlOriginScp}}

InitAgain ==
    /\ editor \in [active : {TRUE}, fsPath : FilePaths, line : {0}]
    /\ config \in [repositoryUrl : {<<>>}, useCommitHash : BOOLEAN]
    /\ git \in AgainGits
    /\ cmd = [c \in {"c1", "c2"} |-> IdleCmd]
    /\ pure = PureIdle

ChangeRepository ==
    /\ cmd["c1"].pc = "done"
    /\ cmd["c2"].pc = "idle"
    /\ git' \in AgainGits \ {git}
    /\ UNCHANGED <<editor, config, cmd, pure>>

NextAgain == NextTwo \/ ChangeRepository

SpecAgain == InitAgain /\ [][NextAgain]_vars

\* ------------------------------------------------------------------------
\* The pure functions, each applied to inputs drawn from a bounded set
\* ------------------------------------------------------------------------

\* No command runs while a function is evaluated on its own.
NoCommands ==
    /\ editor = [active |-> FALSE, fsPath |-> Null, line |-> 0]
    /\ config = [repositoryUrl |-> <<>>, useCommitHash |-> FALSE]
    /\ git = UnknownGit
    /\ cmd = [c \in {"c1"} |-> IdleCmd]

\* The raw forms of a remote URL: the four the source lists, and one with a
\* further path segment.
UrlForms == {"https", "https.git", "scp.git", "ssh.git", "https/wiki"}

OrgNames == {<<"a", "c", "m", "e">>, <<"m", "y", "-", "o", "r", "g">>}

\* Repository names; a name that itself ends in .git is kept apart.
RepoNames == {<<"w", "i", "d", "g", "e", "t", "s">>, <<"w", ".", "j", "s">>, <<"x">>}

DotGitRepoNames == {<<"r", ".", "g", "i", "t">>}

RenderRemoteUrl(form, org, repo, slash) ==
    LET path == org \o <<"/">> \o repo
        raw  == CASE form = "https"      -> <<"h", "t", "t", "p", "s", ":", "/", "/", "g", "i", "t", "h", "u", "b", ".", "c", "o", "m", "/">> \o path
                  [] form = "https.git"  -> <<"h", "t", "t", "p", "s", ":", "/", "/", "g", "i", "t", "h", "u", "b", ".", "c", "o", "m", "/">> \o path \o <<".", "g", "i", "t">>
                  [] form = "scp.git"    -> <<"g", "i", "t", "@", "g", "i", "t", "h", "u", "b", ".", "c", "o", "m", ":">> \o path \o <<".", "g", "i", "t">>
                  [] form = "ssh.git"    -> <<"s", "s", "h", ":", "/", "/", "g", "i", "t", "@", "g", "i", "t", "h", "u", "b", ".", "c", "o", "m", "/">> \o path \o <<".", "g", "i", "t">>
                  [] form = "https/wiki" -> <<"h", "t", "t", "p", "s", ":", "/", "/", "g", "i", "t", "h", "u", "b", ".", "c", "o", "m", "/">> \o path \o <<"/", "w", "i", "k", "i">>
    IN  IF slash THEN raw \o <<"/">> ELSE raw

InitNormalize ==
    /\ NoCommands
    /\ \E form \in UrlForms, org \in OrgNames, repo \in RepoNames \cup DotGitRepoNames,
          slash \in BOOLEAN :
         pure = [fn    |-> "normalizeGitHubUrl",
                 form  |-> form, org |-> org, repo |-> repo, slash |-> slash,
                 url   |-> RenderRemoteUrl(form, org, repo, slash),
                 out   |-> Unknown,
                 again |-> Unknown]

NormalizeOnce ==
    /\ pure.out = Unknown
    /\ pure' = [pure EXCEPT !.out = normalizeGitHubUrl(pure.url)]
    /\ UNCHANGED <<editor, config, git, cmd>>

\* The result, when there is one, is normalized a second time.
NormalizeAgain ==
    /\ pure.out \notin {Unknown, Null}
    /\ pure.again = Unknown
    /\ pure' = [pure EXCEPT !.again = normalizeGitHubUrl(pure.out)]
    /\ UNCHANGED <<editor, config, git, cmd>>

NextNormalize == NormalizeOnce \/ NormalizeAgain

SpecNormalize == InitNormalize /\ [][NextNormalize]_vars

\* A line number to pass, or none.
LineNumbers == {NoLine, 1, 9, 10, 42, 59}

InitConstruct ==
    /\ NoCommands
    /\ \E repositoryUrl \in {cfgWidgets, cfgNotGithub, cfgWidgets \o <<"/">>},
          gitRef \in {<<"m", "a", "i", "n">>, <<"f", "e", "a", "t", "u", "r", "e", "/", "x">>, hashA},
          relativePath \in {<<"s", "r", "c", "/", "i", "n", "d", "e", "x", ".", "t", "s">>, <<"a", " ", "b", ".", "m", "d">>, <<"5", "0", "%", "#", "1", ".", "m", "d">>},
          lineNumber \in LineNumbers :
         pure = [fn            |-> "constructGitHubUrl",
                 repositoryUrl |-> repositoryUrl,
                 gitRef        |-> gitRef,
                 relativePath  |-> relativePath,
                 lineNumber    |-> lineNumber,
                 out           |-> Unknown]

Construct ==
    /\ pure.out = Unknown
    /\ pure' = [pure EXCEPT !.out = constructGitHubUrl(pure.repositoryUrl, pure.gitRef,
                                                       pure.relativePath, pure.lineNumber)]
    /\ UNCHANGED <<editor, config, git, cmd>>

NextConstruct == Construct

SpecConstruct == InitConstruct /\ [][NextConstruct]_vars

\* A commit message is made of at most MaxPieces lines.
MaxPieces == 3

\* The lines a message is made of: what pattern it is an instance of, and the
\* number it carries.
\*   Merge pull request #10 from me/x | merge PULL request #11 | closes#7 |
\*   REFS#8 | #99 | update docs
Pieces ==
    { [kind |-> "merge",   text |-> <<"M", "e", "r", "g", "e", " ", "p", "u", "l", "l", " ", "r", "e", "q", "u", "e", "s", "t", " ", "#", "1", "0", " ", "f", "r", "o", "m", " ", "m", "e", "/", "x">>,  number |-> <<"1", "0">>],
      [kind |-> "merge",   text |-> <<"m", "e", "r", "g", "e", " ", "P", "U", "L", "L", " ", "r", "e", "q", "u", "e", "s", "t", " ", "#", "1", "1">>,  number |-> <<"1", "1">>],
      [kind |-> "closing", text |-> <<"c", "l", "o", "s", "e", "s", "#", "7">>,   number |-> <<"7">>],
      [kind |-> "closing", text |-> <<"R", "E", "F", "S", "#", "8">>,   number |-> <<"8">>],
      [kind |-> "bare",    text |-> <<"#", "9", "9">>,  number |-> <<"9", "9">>],
      [kind |-> "text",    text |-> <<"u", "p", "d", "a", "t", "e", " ", "d", "o", "c", "s">>, number |-> <<>>] }

MessageOf(pieces) ==
    Concat([i \in 1..Len(pieces) |-> pieces[i].text \o <<"\n">>])

InitPRNumber ==
    /\ NoCommands
    /\ \E n \in 1..MaxPieces : \E pieces \in [1..n -> Pieces] :
         pure = [fn     |-> "getPRNumberFromCommit",
                 pieces |-> pieces,
                 stdout |-> MessageOf(pieces),
                 out    |-> Unknown]

ExtractPRNumber ==
    /\ pure.out = Unknown
    /\ pure' = [pure EXCEPT !.out = getPRNumberFromCommit(pure.stdout)]
    /\ UNCHANGED <<editor, config, git, cmd>>

NextPRNumber == ExtractPRNumber

SpecPRNumber == InitPRNumber /\ [][NextPRNumber]_vars

\* getRelativePath on files under a root. A file name may hold any character
\* but the slash; the roots are the file system's, a directory, a deeper one.
MaxDepth == 2

\* src, a.ts, \x, ..\y
FileNames ==
    {<<"s", "r", "c">>, <<"a", ".", "t", "s">>, <<"\\", "x">>, <<".", ".", "\\", "y">>}

\* /, /w, /w/repo
RootDirs == {<<"/">>, <<"/", "w">>, <<"/", "w", "/", "r", "e", "p", "o">>}

\* The file whose names below the root are `names`.
FileUnder(root, names) ==
    (IF root = <<"/">> THEN <<>> ELSE root) \o <<"/">> \o Join(names, "/")

InitRelative ==
    /\ NoCommands
    /\ \E root \in RootDirs : \E n \in 1..MaxDepth : \E names \in [1..n -> FileNames] :
         pure = [fn       |-> "getRelativePath",
                 gitRoot  |-> root,
                 names    |-> names,
                 filePath |-> FileUnder(root, names),
                 out      |-> Unknown]

Relativize ==
    /\ pure.out = Unknown
    /\ pure' = [pure EXCEPT !.out = getRelativePath(pure.filePath, pure.gitRoot)]
    /\ UNCHANGED <<editor, config, git, cmd>>

NextRelative == Relativize

SpecRelative == InitRelative /\ [][NextRelative]_vars

\* Commit messages whose lines name an issue after a closing keyword, with and
\* without something between the keyword and the number:
\*   fix#5 | Resolve#6 | fixes #12 | closes: #13 | #99 | tidy
ClosingLines ==
    { <<"f", "i", "x", "#", "5">>,
      <<"R", "e", "s", "o", "l", "v", "e", "#", "6">>,
      <<"f", "i", "x", "e", "s", " ", "#", "1", "2">>,
      <<"c", "l", "o", "s", "e", "s", ":", " ", "#", "1", "3">>,
      <<"#", "9", "9">>,
      <<"t", "i", "d", "y">> }

InitClosing ==
    /\ NoCommands
    /\ \E n \in 1..MaxPieces : \E lines \in [1..n -> ClosingLines] :
         pure = [fn     |-> "getPRNumberFromCommit",
                 lines  |-> lines,
                 stdout |-> Concat([i \in 1..n |-> lines[i] \o <<"\n">>]),
                 out    |-> Unknown]

NextClosing == ExtractPRNumber

SpecClosing == InitClosing /\ [][NextClosing]_vars

\* extractOrgAndRepo applied to what normalizeGitHubUrl returns for a remote URL,
\* as openPRForLastChangedLine does with the URL of a remote.
InitExtract ==
    /\ NoCommands
    /\ \E form \in UrlForms, org \in OrgNames, repo \in RepoNames \cup DotGitRepoNames,
          slash \in BOOLEAN :
         pure = [fn            |-> "extractOrgAndRepo",
                 url           |-> RenderRemoteUrl(form, org, repo, slash),
                 repositoryUrl |-> Unknown,
                 extracted     |-> FALSE,
                 orgRepo       |-> NoMatch]

NormalizeRemote ==
    /\ pure.repositoryUrl = Unknown
    /\ pure' = [pure EXCEPT !.repositoryUrl = normalizeGitHubUrl(pure.url)]
    /\ UNCHANGED <<editor, config, git, cmd>>

ExtractFromNormalized ==
    /\ pure.repositoryUrl \notin {Unknown, Null}
    /\ ~pure.extracted
    /\ pure' = [pure EXCEPT !.extracted = TRUE,
                            !.orgRepo = extractOrgAndRepo(pure.repositoryUrl)]
    /\ UNCHANGED <<editor, config, git, cmd>>

NextExtract == NormalizeRemote \/ ExtractFromNormalized

SpecExtract == InitExtract /\ [][NextExtract]_vars

\* ------------------------------------------------------------------------
\* Properties
\* ------------------------------------------------------------------------

\* The command has got past getGitRoot with a root.
HasRoot(st) == st.gitRoot # Unknown /\ ~Falsy(st.gitRoot)

\* getGitHubRepositoryUrl has returned (with a URL or with null).
Resolved(st) == st.repositoryUrl # Unknown

IssuedQueries(st) == {st.issued[i].q : i \in 1..Len(st.issued)}

RemoteQueries == {"git remote get-url", "git remote"}

\* https://github.com/acme/up
normUpstream == sHttpsGithubCom \o <<"a", "c", "m", "e", "/", "u", "p">>

\* C1: when the repositoryUrl setting is non-empty, getGitHubRepositoryUrl
\* returns exactly that value, whatever the remotes are, and the command issues
\* no remote query.
C1_ConfigUrlVerbatim ==
    \A c \in DOMAIN cmd :
        ~Falsy(config.repositoryUrl) =>
            /\ IssuedQueries(cmd[c]) \cap RemoteQueries = {}
            /\ HasRoot(cmd[c]) => cmd[c].repositoryUrl = config.repositoryUrl

\* A command finished on the configured URL although upstream and origin are
\* both GitHub remotes of other repositories.
C1_Witness ==
    \E c \in DOMAIN cmd :
        /\ cmd[c].pc = "done"
        /\ cmd[c].repositoryUrl = cfgWidgets
        /\ cmd[c].opened # <<>>
        /\ git.remoteUrl[sUpstream] = urlUpstreamHttpsGit
        /\ git.remoteUrl[sOrigin] = urlOriginScp

\* The remotes in the order of steps 2-4: upstream, origin, then the listed ones.
RemoteCandidates ==
    <<sUpstream, sOrigin>>
        \o (IF git.remotes = Unknown THEN <<>> ELSE getAllRemotes(git.remotes))

\* The remote's URL query succeeds with a URL of the hosting-service pattern.
RecognizedRemote(n) ==
    /\ git.remoteUrl[n] \notin {Unknown, Fail}
    /\ normalizeGitHubUrl(Trim(git.remoteUrl[n])) # Null

\* The normalized URL of the first recognized candidate, or Null.
HighestPriorityRemoteUrl ==
    LET hits == {i \in 1..Len(RemoteCandidates) : RecognizedRemote(RemoteCandidates[i])}
    IN  IF hits = {} THEN Null
        ELSE normalizeGitHubUrl(Trim(git.remoteUrl[RemoteCandidates[Min(hits)]]))

\* C2: with no configured URL, getGitHubRepositoryUrl returns the normalized
\* URL of the first recognized remote in the order upstream, origin, listed
\* remotes, and null exactly when none is recognized.
C2_RemotePriority ==
    \A c \in DOMAIN cmd :
        (Falsy(config.repositoryUrl) /\ Resolved(cmd[c])) =>
            cmd[c].repositoryUrl = HighestPriorityRemoteUrl

\* upstream and origin are both recognized and the upstream URL was returned.
C2_Witness ==
    \E c \in DOMAIN cmd :
        /\ Falsy(config.repositoryUrl)
        /\ git.remoteUrl[sUpstream] = urlUpstreamHttpsGit
        /\ git.remoteUrl[sOrigin] = urlOriginScp
        /\ cmd[c].repositoryUrl = normUpstream

\* C10: with no configured URL, the remote the returned URL was taken from has
\* a URL that contains github.com, whichever step examined it.
C10_NoMarkerNeverSelected ==
    \A c \in DOMAIN cmd :
        (Falsy(config.repositoryUrl) /\ cmd[c].from \in RemoteNames) =>
            Contains(git.remoteUrl[cmd[c].from], sGithubCom)

\* upstream, origin and the first listed remote have URLs without the marker,
\* each was examined, and the URL came from the remote after them.
C10_Witness ==
    \E c \in DOMAIN cmd :
        /\ Falsy(config.repositoryUrl)
        /\ git.remoteUrl[sUpstream] = urlUpstreamGitlab
        /\ git.remoteUrl[sOrigin] = urlOriginBitbucket
        /\ git.remoteUrl[sFork] = urlForkOther
        /\ cmd[c].from = sMirror
        /\ Len(SelectSeq(cmd[c].issued, LAMBDA x : x.q = "git remote get-url")) = 4

\* C4: with useCommitHash, getGitRef returns the commit identifier and never asks
\* for the branch; without it, getGitRef returns the branch name when the branch
\* query succeeds with a non-empty name and the commit identifier otherwise.
C4_ReferenceResolver ==
    \A c \in DOMAIN cmd :
        /\ config.useCommitHash =>
              "git branch --show-current" \notin IssuedQueries(cmd[c])
        /\ cmd[c].gitRef # Unknown =>
              cmd[c].gitRef =
                  IF ~config.useCommitHash /\ git.branch # Fail /\ Trim(git.branch) # <<>>
                  THEN Trim(git.branch)
                  ELSE Trim(git.head)

\* Detached HEAD: the branch query printed an empty line and the reference is
\* the full 40-character commit identifier.
C4_Witness ==
    \E c \in DOMAIN cmd :
        /\ ~config.useCommitHash
        /\ git.branch = <<"\n">>
        /\ cmd[c].gitRef = hashA
        /\ Len(cmd[c].gitRef) = HashLen

\* The texts of the error notifications a command has shown.
ErrorTexts(st) ==
    LET errs == SelectSeq(st.notes, LAMBDA n : n.level = "error")
    IN  [i \in 1..Len(errs) |-> errs[i].text]

\* The calls of the change-request pipeline a command has made, in order.
PipelineCalls(st) ==
    LET calls == SelectSeq(st.issued,
                   LAMBDA x : x.q \in {"git blame --porcelain -L", "git log -1 --format=%B", "open"})
    IN  [i \in 1..Len(calls) |-> calls[i].q]

PipelineOrder == <<"git blame --porcelain -L", "git log -1 --format=%B", "open">>

\* C5: the change-request command asks blame, then the commit message, then takes
\* the repository URL apart, then opens; the first step that fails ends the
\* command with its own message, nothing later runs, nothing is repeated, and
\* the URL is opened only when every step succeeded.
C5_LinearPipeline ==
    \A c \in DOMAIN cmd :
        LET st == cmd[c]
            n  == Len(PipelineCalls(st))
        IN  st.kind = "openPRForLine" =>
              /\ n <= 3 /\ PipelineCalls(st) = SubSeq(PipelineOrder, 1, n)
              /\ (st.pc = "done" /\ n >= 1) =>
                   IF parseBlame(git.blame[st.lineNumber]) = Null
                   THEN n = 1 /\ ErrorTexts(st) = <<"Could not determine commit for this line">>
                   ELSE IF getPRNumberFromCommit(git.message[st.commitHash]) = Null
                   THEN n = 2 /\ ErrorTexts(st) = <<"Could not find PR number in commit message">>
                   ELSE IF ~extractOrgAndRepo(st.repositoryUrl).ok
                   THEN n = 2 /\ ErrorTexts(st) = <<"Invalid repository URL format">>
                   ELSE n = 3
              /\ st.opened # <<>> => n = 3 /\ ErrorTexts(st) = <<>>

\* The commit message has no number and the configured URL is not a GitHub URL:
\* the command stopped at the commit message, with that step's message.
C5_Witness ==
    \E c \in DOMAIN cmd :
        /\ cmd[c].kind = "openPRForLine"
        /\ cmd[c].pc = "done"
        /\ cmd[c].repositoryUrl = cfgNotGithub
        /\ ErrorTexts(cmd[c]) = <<"Could not find PR number in commit message">>
        /\ git.message[cmd[c].commitHash] = msgNone
        /\ PipelineCalls(cmd[c]) = SubSeq(PipelineOrder, 1, 2)

\* C7: a command that has ended either opened one URL and showed one
\* informational notification, or showed exactly one error notification and
\* opened nothing; until it ends it has shown and opened nothing.
C7_OneNotification ==
    \A c \in DOMAIN cmd :
        LET st == cmd[c]
        IN  IF st.pc = "done"
            THEN \/ /\ Len(st.notes) = 1 /\ st.notes[1].level = "info"
                    /\ st.opened = <<st.url>>
                 \/ /\ Len(st.notes) = 1 /\ st.notes[1].level = "error"
                    /\ st.opened = <<>>
            ELSE st.notes = <<>> /\ st.opened = <<>>

\* open() itself was rejected: one error notification, nothing opened.
C7_Witness ==
    \E c \in DOMAIN cmd :
        /\ cmd[c].pc = "done"
        /\ "open" \in IssuedQueries(cmd[c])
        /\ ErrorTexts(cmd[c]) = <<"spawn ENOENT">>
        /\ cmd[c].opened = <<>>

\* The decimal numerals of the line numbers tried.
NumeralOf(n) ==
    CASE n = 1  -> <<"1">>
      [] n = 9  -> <<"9">>
      [] n = 10 -> <<"1", "0">>
      [] n = 42 -> <<"4", "2">>
      [] n = 59 -> <<"5", "9">>

\* C3: constructGitHubUrl returns <repositoryUrl>/blob/<ref>/<relativePath>,
\* followed by #L<lineNumber> when a line number (>= 1) is supplied, and nothing
\* else: no character of the three parts is escaped or dropped.
C3_FileLink ==
    (pure.fn = "constructGitHubUrl" /\ pure.out # Unknown) =>
        pure.out =
            pure.repositoryUrl \o <<"/", "b", "l", "o", "b", "/">> \o pure.gitRef
                \o <<"/">> \o pure.relativePath
                \o (IF pure.lineNumber = NoLine THEN <<>>
                    ELSE <<"#", "L">> \o NumeralOf(pure.lineNumber))

\* https://github.com/acme/widgets, main, src/index.ts, line 42.
C3_Witness ==
    /\ pure.fn = "constructGitHubUrl"
    /\ pure.repositoryUrl = cfgWidgets
    /\ pure.lineNumber = 42
    /\ pure.out = cfgWidgets
         \o <<"/", "b", "l", "o", "b", "/", "m", "a", "i", "n", "/",
              "s", "r", "c", "/", "i", "n", "d", "e", "x", ".", "t", "s", "#", "L", "4", "2">>

\* The pieces of one pattern, in the order they occur in the message.
PiecesOfKind(pieces, kind) == SelectSeq(pieces, LAMBDA x : x.kind = kind)

\* The number of the first piece of the first pattern, in the order merge,
\* closing keyword, bare, that has a piece in the message.
NumberByPrecedence(pieces) ==
    IF PiecesOfKind(pieces, "merge") # <<>> THEN PiecesOfKind(pieces, "merge")[1].number
    ELSE IF PiecesOfKind(pieces, "closing") # <<>> THEN PiecesOfKind(pieces, "closing")[1].number
    ELSE IF PiecesOfKind(pieces, "bare") # <<>> THEN PiecesOfKind(pieces, "bare")[1].number
    ELSE Null

\* C6: the number extracted from a commit message is that of 'Merge pull
\* request #N' when the message has one, else that of a closing keyword with
\* #N, else that of a bare #N, wherever in the message the matches are; it is
\* absent when the message has none of them.
C6_PatternPrecedence ==
    (pure.fn = "getPRNumberFromCommit" /\ pure.out # Unknown) =>
        pure.out = NumberByPrecedence(pure.pieces)

\* A stray #99 and a closing keyword come before 'Merge pull request #10': 10.
C6_Witness ==
    /\ pure.fn = "getPRNumberFromCommit"
    /\ Len(pure.pieces) = 3
    /\ pure.pieces[1].kind = "bare"
    /\ pure.pieces[2].kind = "closing"
    /\ pure.pieces[3].kind = "merge"
    /\ pure.out = <<"1", "0">>

\* C8: each of the four raw forms, with or without a trailing slash, of a
\* repository <org>/<repo> is normalized to https://github.com/<org>/<repo>.
\* <repo> is a repository name, which does not itself end in .git: a URL that
\* ends in .git is the form <repo>.git.
C8_RawFormsNormalized ==
    ( /\ pure.fn = "normalizeGitHubUrl"
      /\ pure.out # Unknown
      /\ pure.form \in {"https", "https.git", "scp.git", "ssh.git"}
      /\ pure.repo \in RepoNames ) =>
        pure.out =
            <<"h", "t", "t", "p", "s", ":", "/", "/", "g", "i", "t", "h", "u", "b", ".", "c", "o", "m", "/">>
                \o pure.org \o <<"/">> \o pure.repo

\* git@github.com:acme/widgets.git/ gave https://github.com/acme/widgets.
C8_Witness ==
    /\ pure.fn = "normalizeGitHubUrl"
    /\ pure.form = "scp.git"
    /\ pure.slash
    /\ pure.out = cfgWidgets

\* C9: normalizing a normalized URL gives it back: whenever normalizeGitHubUrl(u)
\* is not null, normalizeGitHubUrl(normalizeGitHubUrl(u)) is the same URL.
C9_Idempotent ==
    (pure.fn = "normalizeGitHubUrl" /\ pure.again # Unknown) => pure.again = pure.out

\* The repository URL the Remote Identifier owes the command: the setting, or
\* the normalized URL of the remote it was taken from.
IdentifiedUrl(st) ==
    IF ~Falsy(config.repositoryUrl) THEN config.repositoryUrl
    ELSE normalizeGitHubUrl(Trim(git.remoteUrl[st.from]))

\* The reference the Reference Resolver owes for the setting and the repository.
ResolvedRef ==
    IF ~config.useCommitHash /\ git.branch # Fail /\ Trim(git.branch) # <<>>
    THEN Trim(git.branch)
    ELSE Trim(git.head)

\* C11: when the open-repository command succeeds, the URL it opened is
\* <repositoryUrl>/tree/<ref>, with the repository URL of the Remote Identifier
\* and the reference of the Reference Resolver.
C11_RepositoryLink ==
    \A c \in DOMAIN cmd :
        (cmd[c].kind = "openRepository" /\ cmd[c].opened # <<>>) =>
            cmd[c].opened =
                << IdentifiedUrl(cmd[c]) \o <<"/", "t", "r", "e", "e", "/">> \o ResolvedRef >>

\* The repository of the origin remote at the commit: https://github.com/me/up/tree/3f2a...
C11_Witness ==
    \E c \in DOMAIN cmd :
        /\ cmd[c].kind = "openRepository"
        /\ cmd[c].pc = "done"
        /\ config.useCommitHash
        /\ cmd[c].from = sOrigin
        /\ cmd[c].opened =
             << sHttpsGithubCom \o <<"m", "e", "/", "u", "p", "/", "t", "r", "e", "e", "/">> \o hashA >>

\* The host of an https URL: what stands between https:// and the next slash.
HostOf(url) ==
    LET rest == From(url, 9)
        cut  == Min({i \in 1..(Len(rest) + 1) : i = Len(rest) + 1 \/ rest[i] = "/"})
    IN  SubSeq(rest, 1, cut - 1)

\* https://<host>/<org>/<repo>/pull/<number> for a repository URL and a number.
PullLink(repositoryUrl, number) ==
    <<"h", "t", "t", "p", "s", ":", "/", "/">> \o HostOf(repositoryUrl) \o <<"/">>
        \o extractOrgAndRepo(repositoryUrl).org \o <<"/">>
        \o extractOrgAndRepo(repositoryUrl).repo
        \o <<"/", "p", "u", "l", "l", "/">> \o number

\* C12: when the change-request command succeeds, the URL it opened is
\* https://<host>/<org>/<repo>/pull/<number>, with the host, organization and
\* repository of the resolved repository URL and the number extracted from the
\* commit message of the blamed commit.
C12_PullLink ==
    \A c \in DOMAIN cmd :
        (cmd[c].kind = "openPRForLine" /\ cmd[c].opened # <<>>) =>
            cmd[c].opened =
                << PullLink(IdentifiedUrl(cmd[c]),
                            getPRNumberFromCommit(git.message[cmd[c].commitHash])) >>

\* The command has asked q and the answer has come back.
Returned(st, q, pc) == q \in IssuedQueries(st) /\ st.pc # pc

\* C13: when the commit query fails where getGitRef needs it (useCommitHash, or
\* the branch query failed or printed nothing), the command ends with the error
\* 'Failed to get git reference' and opens nothing; that error has no other
\* cause, and a failed branch query alone lets the command go on with the commit.
C13_ReferenceUnresolvable ==
    \A c \in DOMAIN cmd :
        LET st == cmd[c]
        IN  /\ (Returned(st, "git rev-parse HEAD", "getHead") /\ git.head = Fail) =>
                  /\ st.pc = "done"
                  /\ ErrorTexts(st) = <<"Failed to get git reference">>
                  /\ Len(st.notes) = 1
                  /\ st.opened = <<>>
                  /\ "open" \notin IssuedQueries(st)
            /\ "Failed to get git reference" \in {st.notes[i].text : i \in 1..Len(st.notes)} =>
                  /\ git.head = Fail
                  /\ st.useCommitHash \/ git.branch = Fail \/ Trim(git.branch) = <<>>
            /\ ( /\ Returned(st, "git branch --show-current", "getBranch")
                 /\ git.branch = Fail
                 /\ Returned(st, "git rev-parse HEAD", "getHead")
                 /\ git.head # Fail ) =>
                  /\ st.gitRef = Trim(git.head)
                  /\ "open" \in IssuedQueries(st)
                  /\ "Failed to get git reference" \notin {st.notes[i].text : i \in 1..Len(st.notes)}

\* Neither the branch nor the commit can be read: the file command ends with
\* the error.
C13_Witness ==
    \E c \in DOMAIN cmd :
        /\ cmd[c].kind = "openFileAtLine"
        /\ ~cmd[c].useCommitHash
        /\ git.branch = Fail
        /\ git.head = Fail
        /\ cmd[c].pc = "done"
        /\ ErrorTexts(cmd[c]) = <<"Failed to get git reference">>
        /\ cmd[c].opened = <<>>

\* C14: when the root query fails or prints no root, the command shows 'File is
\* not in a git repository' and ends: the root query is the only query it ever
\* issued, and it opens nothing.
C14_NotTracked ==
    \A c \in DOMAIN cmd :
        LET st == cmd[c]
        IN  ( /\ Returned(st, "git rev-parse --show-toplevel", "getGitRoot")
              /\ (git.root = Fail \/ Trim(git.root) = <<>>) ) =>
                /\ st.pc = "done"
                /\ ErrorTexts(st) = <<"File is not in a git repository">>
                /\ Len(st.notes) = 1
                /\ Len(st.issued) = 1
                /\ st.opened = <<>>

\* The root query printed an empty line and the change-request command ended
\* with the message.
C14_Witness ==
    \E c \in DOMAIN cmd :
        /\ cmd[c].kind = "openPRForLine"
        /\ git.root = <<"\n">>
        /\ cmd[c].pc = "done"
        /\ ErrorTexts(cmd[c]) = <<"File is not in a git repository">>
        /\ Len(cmd[c].issued) = 1

\* The remote queries a command has issued, in order.
RemoteCalls(st) == SelectSeq(st.issued, LAMBDA x : x.q \in RemoteQueries)

\* The command's i-th remote query has come back, and it failed.
RemoteCallFailed(st, i) ==
    /\ i < Len(RemoteCalls(st)) \/ st.pc \notin {"upstream", "origin", "allRemotes", "enum"}
    /\ IF RemoteCalls(st)[i].q = "git remote"
       THEN git.remotes = Fail
       ELSE git.remoteUrl[RemoteCalls(st)[i].arg] = Fail

\* getGitHubRepositoryUrl has returned absent and the handler said so.
ReturnedAbsent(st) ==
    /\ st.repositoryUrl = Null
    /\ st.pc = "done"
    /\ ErrorTexts(st) = <<sNoRepositoryUrl>>

\* C15: a failed remote query is never fatal. After a failed URL query for
\* upstream the origin is asked, after a failed one for origin the remotes are
\* listed, a failed listing counts as no remotes, a failed URL query for a
\* listed remote is followed by the query for the next listed remote; when
\* nothing is left getGitHubRepositoryUrl returns absent, and it never throws.
C15_RemoteFailureDegrades ==
    \A c \in DOMAIN cmd :
        LET st    == cmd[c]
            calls == RemoteCalls(st)
            names == getAllRemotes(git.remotes)
        IN  /\ \A i \in 1..Len(calls) :
                 RemoteCallFailed(st, i) =>
                    CASE i = 1 -> /\ Len(calls) >= 2
                                  /\ calls[2] = [q |-> "git remote get-url", arg |-> sOrigin]
                      [] i = 2 -> /\ Len(calls) >= 3
                                  /\ calls[3] = [q |-> "git remote", arg |-> <<>>]
                      [] i = 3 -> Len(calls) = 3 /\ ReturnedAbsent(st)
                      [] OTHER -> IF i - 3 < Len(names)
                                  THEN /\ Len(calls) >= i + 1
                                       /\ calls[i + 1] = [q |-> "git remote get-url", arg |-> names[i - 2]]
                                  ELSE Len(calls) = i /\ ReturnedAbsent(st)
            /\ ( /\ \E i \in 1..Len(calls) : RemoteCallFailed(st, i)
                 /\ st.pc = "done"
                 /\ st.repositoryUrl \in {Unknown, Null} ) => ReturnedAbsent(st)

\* The URL queries for upstream, origin and the first listed remote all failed,
\* and the repository URL came from the remote listed after it.
C15_Witness ==
    \E c \in DOMAIN cmd :
        /\ git.remoteUrl[sUpstream] = Fail
        /\ git.remoteUrl[sOrigin] = Fail
        /\ git.remotes = listForkMirror
        /\ git.remoteUrl[sFork] = Fail
        /\ Len(RemoteCalls(cmd[c])) = 5
        /\ cmd[c].from = sMirror
        /\ cmd[c].repositoryUrl # Null

\* One invocation on its own, from where it stands to its end or to the open
\* of its URL, with the answers the repository gives.
RECURSIVE RunAlone(_)
RunAlone(st) ==
    CASE st.pc \in {"done", "open"} -> st
      [] st.pc = "getGitRoot" -> RunAlone(afterGitRoot(st, getGitRoot(git.root)))
      [] st.pc = "upstream"   -> RunAlone(afterRemoteUrl(st, sUpstream, git.remoteUrl[sUpstream]))
      [] st.pc = "origin"     -> RunAlone(afterRemoteUrl(st, sOrigin, git.remoteUrl[sOrigin]))
      [] st.pc = "enum"       -> RunAlone(afterRemoteUrl(st, Head(st.remotes),
                                                         git.remoteUrl[Head(st.remotes)]))
      [] st.pc = "allRemotes" -> RunAlone(enumerateRemotes(st, getAllRemotes(git.remotes)))
      [] st.pc = "getBranch"  -> RunAlone(afterBranch(st, git.branch))
      [] st.pc = "getHead"    -> RunAlone(afterHead(st, git.head))
      [] st.pc = "blame"      -> RunAlone(afterBlame(st, git.blame[st.lineNumber]))
      [] st.pc = "log"        -> RunAlone(afterLog(st, git.message[st.commitHash]))

\* What the user sees of an invocation: the URLs opened, the errors shown, and
\* how many informational notifications.
Outcome(st) ==
    [opened |-> st.opened,
     errors |-> ErrorTexts(st),
     infos  |-> Len(SelectSeq(st.notes, LAMBDA n : n.level = "info"))]

\* The outcome of the command run on its own, open() resolving or rejecting
\* as it did.
OutcomeAlone(kind, opens) ==
    LET st == RunAlone(handlerEntry([IdleCmd EXCEPT !.kind = kind]))
    IN  IF st.pc = "done" THEN Outcome(st)
        ELSE IF opens THEN [opened |-> <<st.url>>, errors |-> <<>>, infos |-> 1]
        ELSE [opened |-> <<>>, errors |-> <<"spawn ENOENT">>, infos |-> 0]

\* C16: with two invocations interleaved at every pending query, over an
\* editor, settings and repository that do not change, each invocation that has
\* ended has the outcome it would have had on its own.
C16_IndependentCommands ==
    \A c \in DOMAIN cmd :
        cmd[c].pc = "done" =>
            Outcome(cmd[c]) = OutcomeAlone(cmd[c].kind, cmd[c].opened # <<>>)

\* A repository command and a file command ran at once and both opened their
\* own URL.
C16_Witness ==
    /\ cmd["c2"].overlapped
    /\ cmd["c1"].kind = "openRepository"
    /\ cmd["c2"].kind = "openFileAtLine"
    /\ cmd["c1"].pc = "done" /\ cmd["c2"].pc = "done"
    /\ Len(cmd["c1"].opened) = 1 /\ Len(cmd["c2"].opened) = 1
    /\ cmd["c1"].opened # cmd["c2"].opened
    /\ Contains(cmd["c1"].opened[1], sTree)
    /\ Contains(cmd["c2"].opened[1], sBlob)

\* C17: for a file under the root, the path getRelativePath returns has no
\* backslash, does not start with a slash, and has no segment '..'.
C17_RelativePathWellFormed ==
    (pure.fn = "getRelativePath" /\ pure.out # Unknown) =>
        /\ \A i \in 1..Len(pure.out) : pure.out[i] # "\\"
        /\ pure.out = <<>> \/ pure.out[1] # "/"
        /\ \A i \in 1..Len(Split(pure.out, "/")) : Split(pure.out, "/")[i] # <<".", ".">>

\* C18: whenever getGitRef has returned, the reference is not empty, whatever
\* useCommitHash is and whatever the branch and commit queries answered.
C18_RefNonEmpty ==
    \A c \in DOMAIN cmd : cmd[c].gitRef # Unknown => Len(cmd[c].gitRef) > 0

\* The closing keywords as the specification lists them.
ListedKeywords ==
    { <<"f", "i", "x", "e", "s">>, <<"f", "i", "x">>,
      <<"c", "l", "o", "s", "e", "s">>, <<"c", "l", "o", "s", "e">>,
      <<"r", "e", "s", "o", "l", "v", "e", "s">>, <<"r", "e", "s", "o", "l", "v", "e">>,
      <<"r", "e", "f", "s">>, <<"r", "e", "f">> }

\* A listed keyword, in any case, stands at position i and #N follows at once.
KeywordThenNumberAt(msg, i) ==
    \E kw \in ListedKeywords :
        /\ StartsWithAtIgnoringCase(msg, i, kw)
        /\ i + Len(kw) <= Len(msg)
        /\ msg[i + Len(kw)] = "#"
        /\ DigitsFrom(msg, i + Len(kw) + 1) # <<>>

\* The number of the leftmost keyword that #N follows at once, or Null.
ImmediateClosingNumber(msg) ==
    LET starts == {i \in 1..Len(msg) : KeywordThenNumberAt(msg, i)}
        i      == Min(starts)
        kw     == CHOOSE k \in ListedKeywords :
                     /\ StartsWithAtIgnoringCase(msg, i, k)
                     /\ i + Len(k) <= Len(msg) /\ msg[i + Len(k)] = "#"
    IN  IF starts = {} THEN Null ELSE DigitsFrom(msg, i + Len(kw) + 1)

\* The first bare #N of the message, or Null.
FirstBareNumber(msg) ==
    LET starts == {i \in 1..Len(msg) : msg[i] = "#" /\ DigitsFrom(msg, i + 1) # <<>>}
    IN  IF starts = {} THEN Null ELSE DigitsFrom(msg, Min(starts) + 1)

\* C19: in a message without 'Merge pull request #N', the number is that of a
\* closing keyword (fixes, fix, closes, close, resolves, resolve, refs, ref, in
\* any case) that #N follows immediately; when no keyword is followed by #N
\* immediately, also when whitespace or a colon stands between them, the number
\* is that of the first bare #N of the message.
C19_ClosingImmediately ==
    (pure.fn = "getPRNumberFromCommit" /\ pure.out # Unknown) =>
        pure.out =
            IF ImmediateClosingNumber(pure.stdout) # Null
            THEN ImmediateClosingNumber(pure.stdout)
            ELSE FirstBareNumber(pure.stdout)

\* The command's i-th remote query has come back with a URL that contains
\* github.com but is not of the form org/repo at its end.
RemoteCallUnmatched(st, i) ==
    LET call == RemoteCalls(st)[i]
    IN  /\ i < Len(RemoteCalls(st)) \/ st.pc \notin {"upstream", "origin", "allRemotes", "enum"}
        /\ call.q = "git remote get-url"
        /\ git.remoteUrl[call.arg] \notin {Unknown, Fail}
        /\ Contains(git.remoteUrl[call.arg], sGithubCom)
        /\ normalizeGitHubUrl(Trim(git.remoteUrl[call.arg])) = Null

\* C20: a remote URL that contains github.com but does not end in org/repo is
\* passed over and is no error: after upstream the origin is asked, after origin
\* the remotes are listed, after a listed remote the next listed remote is
\* asked; only after the last one getGitHubRepositoryUrl returns absent.
C20_UnmatchedUrlSkipped ==
    \A c \in DOMAIN cmd :
        LET st    == cmd[c]
            calls == RemoteCalls(st)
            names == getAllRemotes(git.remotes)
        IN  \A i \in 1..Len(calls) :
               RemoteCallUnmatched(st, i) =>
                  /\ st.from # calls[i].arg
                  /\ CASE i = 1 -> /\ Len(calls) >= 2
                                   /\ calls[2] = [q |-> "git remote get-url", arg |-> sOrigin]
                       [] i = 2 -> /\ Len(calls) >= 3
                                   /\ calls[3] = [q |-> "git remote", arg |-> <<>>]
                       [] OTHER -> IF i - 3 < Len(names)
                                   THEN /\ Len(calls) >= i + 1
                                        /\ calls[i + 1] = [q |-> "git remote get-url", arg |-> names[i - 2]]
                                   ELSE Len(calls) = i /\ ReturnedAbsent(st)

\* upstream, origin and the first listed remote each have a GitHub URL with a
\* further path segment; the repository URL came from the remote listed next.
C20_Witness ==
    \E c \in DOMAIN cmd :
        /\ git.remoteUrl[sUpstream] = urlUpstreamExtra
        /\ git.remoteUrl[sOrigin] = urlOriginExtra
        /\ git.remotes = listForkMirror
        /\ git.remoteUrl[sFork] = urlForkExtra
        /\ Len(RemoteCalls(cmd[c])) = 5
        /\ cmd[c].from = sMirror
        /\ cmd[c].repositoryUrl # Null

\* C21: the line a command uses, for the #L anchor and for the blame query, is
\* the cursor line at the moment the command was started plus one, wherever
\* the cursor has moved since.
C21_LineAtInvocation ==
    \A c \in DOMAIN cmd :
        cmd[c].lineNumber # NoLine => cmd[c].lineNumber = cmd[c].cursorAtStart + 1

\* C22: on a repository URL that normalizeGitHubUrl returned for a remote,
\* extractOrgAndRepo succeeds and gives the organization and the repository of
\* that URL, https://github.com/<org>/<repo>.
C22_ExtractAgrees ==
    (pure.fn = "extractOrgAndRepo" /\ pure.extracted) =>
        /\ pure.orgRepo.ok
        /\ pure.repositoryUrl =
             <<"h", "t", "t", "p", "s", ":", "/", "/", "g", "i", "t", "h", "u", "b", ".", "c", "o", "m", "/">>
                 \o pure.orgRepo.org \o <<"/">> \o pure.orgRepo.repo

\* The URL queries a command has issued for listed remotes: those after `git remote`.
EnumeratedCalls(st) ==
    LET calls == RemoteCalls(st)
    IN  IF Len(calls) <= 3 THEN <<>>
        ELSE [i \in 1..(Len(calls) - 3) |-> calls[i + 3].arg]

\* The loop over the listed remotes asks them in the listed order, each position
\* of the list once.
EnumeratesOnce(st) ==
    LET asked == EnumeratedCalls(st)
    IN  asked # <<>> =>
          /\ Len(asked) <= Len(getAllRemotes(git.remotes))
          /\ asked = SubSeq(getAllRemotes(git.remotes), 1, Len(asked))

\* The two ways a command ends.
EndedWell(st) ==
    \/ /\ Len(st.opened) = 1
       /\ Len(st.notes) = 1 /\ st.notes[1].level = "info"
       /\ st.issued[Len(st.issued)].q = "open"
    \/ /\ st.opened = <<>>
       /\ Len(st.notes) = 1 /\ st.notes[1].level = "error"

\* C23: when every query and every open() returns, a command that was started
\* finishes; on the way the loop over the listed remotes asks each of them once,
\* and the command ends either with its URL opened and one informational
\* notification or with one error notification.
C23_Terminates ==
    /\ [](\A c \in DOMAIN cmd :
             /\ EnumeratesOnce(cmd[c])
             /\ cmd[c].pc = "done" => EndedWell(cmd[c]))
    /\ \A c \in {"c1"} : (cmd[c].pc # "idle") ~> (cmd[c].pc = "done")

\* All four listed remotes were asked, none was recognised, and the command
\* ended with the error.
C23_Witness ==
    \E c \in DOMAIN cmd :
        /\ git.remotes = listAll
        /\ Len(EnumeratedCalls(cmd[c])) = 4
        /\ ReturnedAbsent(cmd[c])

\* C24: nothing is kept from one invocation to the next. Whatever the first
\* command did, and whether or not the repository was changed after it, the
\* outcome of the second command is the outcome of that command run on its own
\* with the editor, the settings and the repository as they are during it.
C24_NoStateSurvives ==
    cmd["c2"].pc = "done" =>
        Outcome(cmd["c2"]) = OutcomeAlone(cmd["c2"].kind, cmd["c2"].opened # <<>>)

\* The first command found no GitHub remote; the origin was then pointed at
\* GitHub, and the second command opened the repository of that remote.
C24_Witness ==
    /\ cmd["c1"].pc = "done"
    /\ ErrorTexts(cmd["c1"]) = <<sNoRepositoryUrl>>
    /\ git.remoteUrl[sOrigin] = urlOriginScp
    /\ cmd["c2"].pc = "done"
    /\ cmd["c2"].from = sOrigin
    /\ cmd["c2"].opened =
         << sHttpsGithubCom \o <<"m", "e", "/", "u", "p", "/", "t", "r", "e", "e", "/", "m", "a", "i", "n">> >>

====
